---- MODULE Spec2Model ----
(***************************************************************************)
(* A model of CMLLoad.LoadEEG (src/CMLLoad.py) and of ClusterRun /         *)
(* ClusterChecked (src/ClusterRun.py).                                     *)
(*                                                                         *)
(* Python values are modelled as follows.                                  *)
(*   - An optional value (None or x) is the sequence <<>> or <<x>>.        *)
(*   - An array or table of length n is a function with domain 0..n-1, so  *)
(*     that indices are Python's.                                          *)
(*   - Times are integer milliseconds, the sample rate an integer number   *)
(*     of samples per second, signal values are positive integers and the  *)
(*     not-a-number marker is the integer NaN.                             *)
(***************************************************************************)
EXTENDS Integers, Sequences, FiniteSets, TLC

(***************************************************************************)
(* Bounds of the model.                                                    *)
(***************************************************************************)
SigLen == 5
NChan == 2
NSeg == 2
MaxEvents == 2
MaxLenMs == 3
MaxParams == 4

\* max_cores=100, the default of ClusterRun
DefaultMaxCores == 100

\* np.nan, the value the epoch tensor is filled with
NaN == -1

None == <<>>
Some(x) == <<x>>

SampleRates == {500, 1000}
EvStarts == {-2, 0, 1}
EvLens == {None} \cup {Some(w) : w \in 1..MaxLenMs}
Bufs == {None, Some(1), Some(2)}
StrictArgs == {None, Some(TRUE), Some(FALSE)}
EegOffsets == {0, 2}

Length(a) == Cardinality(DOMAIN a)

\* The session row handed in as df_row.
DfRow == [subject |-> "R1001P", experiment |-> "FR1", session |-> 0]

VARIABLES disk, self, args, pc, ret, io,
          ev_start, ev_len, buf, strict, sr, data, buf_trim,
          samp_start, samp_len, evarr, idx,
          cpc, parameter_list, outcome, num_cores, task, runs, res,
          printed, raised

ldvars == <<disk, self, args, pc, ret, io, ev_start, ev_len, buf, strict, sr,
            data, buf_trim, samp_start, samp_len, evarr, idx>>
clvars == <<cpc, parameter_list, outcome, num_cores, task, runs, res,
            printed, raised>>
vars == <<ldvars, clvars>>

(***************************************************************************)
(* The files of the session: the continuous signal with its samplerate     *)
(* attribute, and the events table.                                        *)
(***************************************************************************)
SampleValue(s, c, t) == 100 * (s + 1) + 10 * (c + 1) + t

\* nan: None, or Some(<<segment, channel, sample>>) of the one NaN sample.
SignalWith(nan) ==
  [s \in 0..NSeg-1 |-> [c \in 0..NChan-1 |-> [t \in 0..SigLen-1 |->
      IF nan = Some(<<s, c, t>>) THEN NaN ELSE SampleValue(s, c, t)]]]

NanPlaces == {None, Some(<<NSeg-1, NChan-1, SigLen-1>>)}

EventTables ==
  UNION {[0..n-1 -> [eegoffset : EegOffsets]] : n \in 0..MaxEvents}

Disks ==
  {[samplerate |-> f, data |-> SignalWith(n), events |-> e] :
      f \in SampleRates, n \in NanPlaces, e \in EventTables}

(***************************************************************************)
(* int(round(x * sr / 1000.)): Python's round is round-half-to-even.       *)
(***************************************************************************)
PyRound(num, den) ==
  LET q == num \div den
      r == num % den
  IN  IF 2 * r < den THEN q
      ELSE IF 2 * r > den THEN q + 1
      ELSE IF q % 2 = 0 THEN q ELSE q + 1

ToSamples(ms, rate) == PyRound(ms * rate, 1000)

\* a loader that ignores the per-call value
GetStrictInstanceOnly(s, strictArg) == s.strict

\* CMLLoad._GetStrict
GetStrict(s, strictArg) == IF strictArg # None THEN strictArg[1] ELSE s.strict

\* CMLLoad._GetLabel
GetLabel(dr) == <<dr.subject, " ", dr.experiment, " ", dr.session>>

\* a check that looks at the first entry of the leading axis only
HasNanFirst(d) ==
  \E c \in DOMAIN d[0] : \E t \in DOMAIN d[0][c] : d[0][c][t] = NaN

\* np.any(np.isnan(data)) for a 3-d array
HasNan(d) ==
  \E a \in DOMAIN d : \E c \in DOMAIN d[a] : \E t \in DOMAIN d[a][c] :
      d[a][c][t] = NaN

\* np.full((n, channels, len), np.nan)
FullNan(n, chans, len) ==
  [i \in 0..n-1 |-> [c \in 0..chans-1 |-> [t \in 0..len-1 |-> NaN]]]

\* a guard that rejects a window ending at the last sample
InBoundsExclusive(st, en, siglen) == st >= 0 /\ en < siglen

\* the guard of the copy: st >= 0 and en <= data.shape[2]
InBounds(st, en, siglen) == st >= 0 /\ en <= siglen

\* data[0, :, st:en]
Slice(d, st, en) ==
  [c \in DOMAIN d[0] |-> [t \in 0..(en - st - 1) |-> d[0][c][st + t]]]

\* a loop body that copies whatever part of the window is inside the signal
RowForClipped(d, ev, sstart, slen, old) ==
  LET st == ev.eegoffset + sstart
  IN  [c \in DOMAIN old |-> [t \in DOMAIN old[c] |->
         IF st + t >= 0 /\ st + t < Length(d[0][0])
           THEN d[0][c][st + t] ELSE old[c][t]]]

\* The value of evarr[i] after the loop body for event ev.
RowFor(d, ev, sstart, slen, old) ==
  LET st == ev.eegoffset + sstart
      en == ev.eegoffset + sstart + slen
  IN  IF InBounds(st, en, Length(d[0][0])) THEN Slice(d, st, en) ELSE old

\* a validation that lets a window of exactly 2*buf_trim samples through
WindowTooShortStrict(slen, btrim) == slen < 2 * btrim

\* the validation test: samp_len <= 2*buf_trim
WindowTooShort(slen, btrim) == slen <= 2 * btrim

\* a start that is not moved back by the buffer
EffStartNoShift(start, b) == start

\* ev_start -= buf ; ev_len += 2*buf (only when buf is given)
EffStart(start, b) == IF b # None THEN start - b[1] ELSE start
EffLen(len, b) == IF b # None THEN len + 2 * b[1] ELSE len
BufTrim(b, rate) == IF b # None THEN ToSamples(b[1], rate) ELSE 0

NoRet == [kind |-> "none", data |-> <<>>, sr |-> 0, msg |-> <<>>]

LoadInit ==
  /\ disk \in Disks
  /\ self \in [data_dir : {"data"}, strict : BOOLEAN, events : {None}]
  /\ args = [ev_start |-> 0, ev_len |-> None, buf |-> None, strict |-> None]
  /\ pc = "idle"
  /\ ret = NoRet
  /\ io = <<>>
  /\ ev_start = 0 /\ ev_len = None /\ buf = None /\ strict = FALSE
  /\ sr = 0 /\ data = <<>> /\ buf_trim = 0
  /\ samp_start = 0 /\ samp_len = 0 /\ evarr = <<>> /\ idx = 0

\* LoadEEG(df_row, ev_start, ev_len, buf, strict): entry, lines 76-78
Call ==
  /\ pc = "idle"
  /\ \E s \in EvStarts, w \in EvLens, b \in Bufs, x \in StrictArgs :
       /\ args' = [ev_start |-> s, ev_len |-> w, buf |-> b, strict |-> x]
       /\ ev_start' = s /\ ev_len' = w /\ buf' = b
       /\ strict' = GetStrict(self, x)
  /\ pc' = "read"
  /\ ret' = [NoRet EXCEPT !.kind = "running"]
  /\ io' = <<>>
  /\ sr' = 0 /\ data' = <<>> /\ buf_trim' = 0
  /\ samp_start' = 0 /\ samp_len' = 0 /\ evarr' = <<>> /\ idx' = 0
  /\ UNCHANGED <<disk, self, clvars>>

\* lines 80-85: read the signal and its samplerate; h5py raises OSError for a
\* file that is missing or unreadable at that moment, passed on as
\* FileNotFoundError
ReadSignal ==
  /\ pc = "read"
  /\ io' = Append(io, "h5py.File")
  /\ \/ /\ sr' = disk.samplerate
        /\ data' = disk.data
        /\ pc' = "channels"
        /\ ret' = ret
     \/ /\ ret' = [NoRet EXCEPT !.kind = "FileNotFoundError"]
        /\ pc' = "idle"
        /\ UNCHANGED <<sr, data>>
  /\ UNCHANGED <<disk, self, args, ev_start, ev_len, buf, strict, buf_trim,
                 samp_start, samp_len, evarr, idx, clvars>>

\* line 87: channels = self.Load(dr, 'channels')
LoadChannels ==
  /\ pc = "channels"
  /\ io' = Append(io, "read_csv channels")
  /\ pc' = "setup"
  /\ UNCHANGED <<disk, self, args, ret, ev_start, ev_len, buf, strict, sr,
                 data, buf_trim, samp_start, samp_len, evarr, idx, clvars>>

\* an events table kept in a local only
StoreEventsLocal(s, table) == s

\* line 96: self.events = self.Load(dr, 'events')
StoreEvents(s, table) == [s EXCEPT !.events = Some(table)]

\* lines 89-99: the effective window in milliseconds and in samples; the events
\* table is loaded and kept on the loader.  Without ev_len nothing is done.
Setup ==
  /\ pc = "setup"
  /\ IF ev_len # None
       THEN /\ ev_start' = EffStart(ev_start, buf)
            /\ ev_len' = Some(EffLen(ev_len[1], buf))
            /\ buf_trim' = BufTrim(buf, sr)
            /\ self' = StoreEvents(self, disk.events)
            /\ io' = Append(io, "read_csv events")
            /\ samp_start' = ToSamples(EffStart(ev_start, buf), sr)
            /\ samp_len' = ToSamples(EffLen(ev_len[1], buf), sr)
            /\ pc' = "validate"
       ELSE /\ buf_trim' = 0
            /\ pc' = "strict"
            /\ UNCHANGED <<ev_start, ev_len, self, io, samp_start, samp_len>>
  /\ UNCHANGED <<disk, args, ret, buf, strict, sr, data, evarr, idx, clvars>>

\* lines 100-101: raise ValueError('ev_len yields 0 or fewer samples')
Validate ==
  /\ pc = "validate"
  /\ IF WindowTooShort(samp_len, buf_trim)
       THEN /\ ret' = [NoRet EXCEPT !.kind = "ValueError",
                          !.msg = <<"ev_len yields 0 or fewer samples">>]
            /\ pc' = "idle"
       ELSE /\ ret' = ret
            /\ pc' = "alloc"
  /\ UNCHANGED <<disk, self, args, io, ev_start, ev_len, buf, strict, sr, data,
                 buf_trim, samp_start, samp_len, evarr, idx, clvars>>

\* line 102: evarr = np.full((len(self.events), data.shape[1], samp_len), nan)
Alloc ==
  /\ pc = "alloc"
  /\ evarr' = FullNan(Length(self.events[1]), Length(data[0]), samp_len)
  /\ io' = Append(io, "np.full")
  /\ idx' = 0
  /\ pc' = "fill"
  /\ UNCHANGED <<disk, self, args, ret, ev_start, ev_len, buf, strict, sr,
                 data, buf_trim, samp_start, samp_len, clvars>>

\* a loop that walks the table from its last row
EventAtReversed(table, i) == table[Length(table) - 1 - i]

\* enumerate(self.events.itertuples()): the row paired with index i
EventAt(table, i) == table[i]

\* lines 103-107: one iteration of the loop over self.events.itertuples()
FillRow ==
  /\ pc = "fill"
  /\ idx < Length(self.events[1])
  /\ evarr' = [evarr EXCEPT ![idx] =
                 RowFor(data, EventAt(self.events[1], idx), samp_start,
                        samp_len, @)]
  /\ idx' = idx + 1
  /\ UNCHANGED <<disk, self, args, pc, ret, io, ev_start, ev_len, buf, strict,
                 sr, data, buf_trim, samp_start, samp_len, clvars>>

\* line 108: data = evarr, once the loop is exhausted
LoopDone ==
  /\ pc = "fill"
  /\ idx = Length(self.events[1])
  /\ data' = evarr
  /\ pc' = "strict"
  /\ UNCHANGED <<disk, self, args, ret, io, ev_start, ev_len, buf, strict, sr,
                 buf_trim, samp_start, samp_len, evarr, idx, clvars>>

\* lines 110-114: the strict check, then return data, sr, channels
StrictCheck ==
  /\ pc = "strict"
  /\ IF strict /\ HasNan(data)
       THEN ret' = [NoRet EXCEPT !.kind = "ArithmeticError",
                       !.msg = <<"nans in eeg data for ", GetLabel(DfRow)>>]
       ELSE ret' = [NoRet EXCEPT !.kind = "return", !.data = data, !.sr = sr]
  /\ pc' = "idle"
  /\ UNCHANGED <<disk, self, args, io, ev_start, ev_len, buf, strict, sr, data,
                 buf_trim, samp_start, samp_len, evarr, idx, clvars>>

(***************************************************************************)
(* ClusterRun and ClusterChecked.  The function's return value for the     *)
(* task at each index is outcome; Python values are named by their repr.   *)
(***************************************************************************)
ResultValues == {"True", "False", "None"}
ParamNames == <<"p0", "p1", "p2", "p3", "p4", "p5">>
MaxCoresArgs == {1, DefaultMaxCores}

\* bool(b)
Truthy(v) == v \notin {"False", "None"}

Min(a, b) == IF a < b THEN a ELSE b

\* lines 21-22: num_cores = min(len(parameter_list), max_cores)
NumCores(plist, max_cores) == Min(Length(plist), max_cores)

\* all(res)
AllTruthy(r) == \A i \in DOMAIN r : Truthy(r[i])

\* sum([not bool(b) for b in res])
Failed(r) == Cardinality({i \in DOMAIN r : ~Truthy(r[i])})

\* a filter that takes only the value False for a failure
IsFalse(v) == v = "False"

\* range(len(res)) filtered by `if not bool(res[i])`
IsFailure(v) == ~Truthy(v)

RECURSIVE FailedFrom(_, _, _)
\* [str(parameter_list[i]) for i in range(len(res)) if not bool(res[i])],
\* from index i on
FailedFrom(plist, r, i) ==
  IF i >= Length(r) THEN <<>>
  ELSE IF IsFailure(r[i]) THEN <<plist[i]>> \o FailedFrom(plist, r, i + 1)
  ELSE FailedFrom(plist, r, i + 1)

\* a classification that tests failed == len(res) before all(res)
ClassifyFailedFirst(plist, r) ==
  IF Failed(r) = Length(r)
    THEN [printed |-> <<>>,
          raised |-> Some([form |-> "All _ jobs failed!",
                           items |-> <<Failed(r)>>])]
  ELSE IF AllTruthy(r)
    THEN [printed |-> <<[form |-> "All _ jobs successful.",
                         items |-> <<Length(r)>>]>>,
          raised |-> None]
  ELSE [printed |-> <<[form |-> "Error on job parameters:",
                       items |-> FailedFrom(plist, r, 0)]>>,
        raised |-> Some([form |-> "_ of _ jobs failed!",
                         items |-> <<Failed(r), Length(r)>>])]

\* lines 45-55: what ClusterChecked prints and raises for the results r
Classify(plist, r) ==
  IF AllTruthy(r)
    THEN [printed |-> <<[form |-> "All _ jobs successful.",
                         items |-> <<Length(r)>>]>>,
          raised |-> None]
  ELSE IF Failed(r) = Length(r)
    THEN [printed |-> <<>>,
          raised |-> Some([form |-> "All _ jobs failed!",
                           items |-> <<Failed(r)>>])]
  ELSE [printed |-> <<[form |-> "Error on job parameters:",
                       items |-> FailedFrom(plist, r, 0)]>>,
        raised |-> Some([form |-> "_ of _ jobs failed!",
                         items |-> <<Failed(r), Length(r)>>])]

ClusterInit ==
  /\ cpc = "idle"
  /\ parameter_list = <<>>
  /\ outcome = <<>>
  /\ num_cores = 0
  /\ task = <<>>
  /\ runs = <<>>
  /\ res = None
  /\ printed = <<>>
  /\ raised = None

\* ClusterChecked(function, parameter_list, max_cores=...): line 44 and, in
\* ClusterRun, lines 21-31: the engines are requested
Submit ==
  /\ cpc = "idle"
  /\ \E n \in 0..MaxParams, m \in MaxCoresArgs :
       /\ parameter_list' = [i \in 0..n-1 |-> ParamNames[i + 1]]
       /\ \E o \in [0..n-1 -> ResultValues] : outcome' = o
       /\ num_cores' = NumCores([i \in 0..n-1 |-> ParamNames[i + 1]], m)
       /\ task' = [i \in 0..n-1 |-> "pending"]
       /\ runs' = [i \in 0..n-1 |-> 0]
  /\ res' = None
  /\ printed' = <<>>
  /\ raised' = None
  /\ cpc' = "map"
  /\ UNCHANGED ldvars

Running == {i \in DOMAIN task : task[i] = "running"}

\* view.map, line 33: a free engine takes a pending task
TaskStart(i) ==
  /\ cpc = "map"
  /\ task[i] = "pending"
  /\ Cardinality(Running) < num_cores
  /\ task' = [task EXCEPT ![i] = "running"]
  /\ runs' = [runs EXCEPT ![i] = @ + 1]
  /\ UNCHANGED <<cpc, parameter_list, outcome, num_cores, res, printed,
                 raised, ldvars>>

\* view.map, line 33: a running task returns
TaskFinish(i) ==
  /\ cpc = "map"
  /\ task[i] = "running"
  /\ task' = [task EXCEPT ![i] = "done"]
  /\ UNCHANGED <<cpc, parameter_list, outcome, num_cores, runs, res, printed,
                 raised, ldvars>>

\* lines 33-35: map returns the results in the order of the parameters, once
\* every task has returned
MapReturn ==
  /\ cpc = "map"
  /\ \A i \in DOMAIN task : task[i] = "done"
  /\ res' = Some([i \in DOMAIN parameter_list |-> outcome[i]])
  /\ cpc' = "check"
  /\ UNCHANGED <<parameter_list, outcome, num_cores, task, runs, printed,
                 raised, ldvars>>

\* lines 45-55
Check ==
  /\ cpc = "check"
  /\ printed' = Classify(parameter_list, res[1]).printed
  /\ raised' = Classify(parameter_list, res[1]).raised
  /\ cpc' = "idle"
  /\ UNCHANGED <<parameter_list, outcome, num_cores, task, runs, res, ldvars>>

Init == LoadInit /\ ClusterInit

LoadNext ==
  \/ Call
  \/ ReadSignal
  \/ LoadChannels
  \/ Setup
  \/ Validate
  \/ Alloc
  \/ FillRow
  \/ LoopDone
  \/ StrictCheck

Spec == Init /\ [][LoadNext]_vars

\* The dispatch is checked with the loader left idle on one session.
ClusterSpecInit ==
  /\ LoadInit
  /\ disk = [samplerate |-> 1000, data |-> SignalWith(None),
             events |-> <<>>]
  /\ ~self.strict
  /\ ClusterInit

ClusterNext ==
  \/ Submit
  \/ \E i \in DOMAIN task : TaskStart(i)
  \/ \E i \in DOMAIN task : TaskFinish(i)
  \/ MapReturn
  \/ Check

ClusterSpec == ClusterSpecInit /\ [][ClusterNext]_vars

(***************************************************************************)
(* The tensor lines 89-108 compute, in closed form.                        *)
(***************************************************************************)
Epochs(sig, rate, table, start, len, b) ==
  LET sstart == ToSamples(EffStart(start, b), rate)
      slen == ToSamples(EffLen(len, b), rate)
      blank == FullNan(Length(table), Length(sig[0]), slen)
  IN  [i \in DOMAIN table |->
         RowFor(sig, EventAt(table, i), sstart, slen, blank[i])]

(***************************************************************************)
(* Vocabulary of the properties.  The window of a call is derived here     *)
(* from the caller's arguments and the files, not from LoadEEG's locals.   *)
(***************************************************************************)
Finished == pc = "idle" /\ ret.kind # "none"
Segmented == args.ev_len # None
\* the call got as far as the strict check
Computed == Finished /\ ret.kind \in {"return", "ArithmeticError"}

ArgStartMs ==
  IF args.buf = None THEN args.ev_start ELSE args.ev_start - args.buf[1]
ArgLenMs ==
  IF args.buf = None THEN args.ev_len[1] ELSE args.ev_len[1] + 2 * args.buf[1]
WinStart == ToSamples(ArgStartMs, disk.samplerate)
WinLen == ToSamples(ArgLenMs, disk.samplerate)
PadSamples ==
  IF args.buf = None THEN 0 ELSE ToSamples(args.buf[1], disk.samplerate)
St(i) == disk.events[i].eegoffset + WinStart
En(i) == disk.events[i].eegoffset + WinStart + WinLen
Inside(i) == St(i) >= 0 /\ En(i) <= SigLen

IsSlice(row, st) ==
  \A c \in 0..NChan-1 : \A k \in DOMAIN row[c] :
      row[c][k] = disk.data[0][c][st + k]
AllMarker(row) == \A c \in DOMAIN row : \A k \in DOMAIN row[c] : row[c][k] = NaN
Markers(d) ==
  {<<a, c, t>> \in (0..MaxEvents+NSeg) \X (0..NChan-1) \X (0..SigLen-1) :
      a \in DOMAIN d /\ c \in DOMAIN d[a] /\ t \in DOMAIN d[a][c]
      /\ d[a][c][t] = NaN}
WantStrict == IF args.strict = None THEN self.strict ELSE args.strict[1]

\* C1: in segmentation mode every event whose window lies within the signal,
\* a window ending exactly at the signal's end included, has its output row
\* equal to signal[0, c, st:en] for every channel.
C1_InsideRowIsSlice ==
  (Computed /\ Segmented) =>
     \A i \in DOMAIN disk.events :
        Inside(i) =>
          /\ \A c \in 0..NChan-1 : DOMAIN data[i][c] = 0..(En(i) - St(i) - 1)
          /\ IsSlice(data[i], St(i))

C1_Witness ==
  /\ Computed /\ Segmented /\ ret.kind = "return"
  /\ \E i \in DOMAIN disk.events :
       /\ St(i) >= 0 /\ En(i) = SigLen
       /\ ret.data[i][0][WinLen - 1] = SampleValue(0, 0, SigLen - 1)

\* C2: in segmentation mode every event whose window leaves the signal on
\* either side has an output row of NaN only, and every row is either the
\* whole slice or NaN throughout.
C2_OutsideRowIsNaN ==
  (Computed /\ Segmented) =>
     \A i \in DOMAIN disk.events :
        /\ (St(i) < 0 \/ En(i) > SigLen) => AllMarker(data[i])
        /\ AllMarker(data[i]) \/ IsSlice(data[i], St(i))

C2_Witness ==
  /\ Computed /\ Segmented
  /\ \E i, j \in DOMAIN disk.events :
       /\ St(i) >= 0 /\ En(i) = SigLen + 1 /\ AllMarker(data[i])
       /\ St(j) = -1 /\ En(j) <= SigLen /\ AllMarker(data[j])

\* C3: the tensor of a segmentation call has one row per row of the events
\* table, one entry per channel of the signal and
\* round(effective_len_ms * sample_rate / 1000) samples, and row i is built
\* from row i of the table.
C3_ShapeAndOrder ==
  (Computed /\ Segmented) =>
     /\ DOMAIN data = 0..(Length(disk.events) - 1)
     /\ \A i \in DOMAIN data :
          /\ DOMAIN data[i] = 0..(NChan - 1)
          /\ \A c \in DOMAIN data[i] :
               DOMAIN data[i][c] = 0..(PyRound(ArgLenMs * disk.samplerate, 1000) - 1)
          /\ ~AllMarker(data[i]) => IsSlice(data[i], St(i))

C3_Witness ==
  /\ Computed /\ Segmented
  /\ Length(disk.events) = 2
  /\ disk.events[0].eegoffset > disk.events[1].eegoffset
  /\ ~AllMarker(data[0]) /\ ~AllMarker(data[1])
  /\ data[0] # data[1]

\* C4: with strict in force (the per-call value when given, the loader's
\* otherwise) a NaN anywhere in the final output ends the call in the
\* data-quality error naming subject, experiment and session, raised once the
\* whole output is computed; otherwise the call returns the output, markers
\* included.
C4_StrictLaw ==
  Computed =>
     IF WantStrict /\ Markers(data) # {}
       THEN /\ ret.kind = "ArithmeticError"
            /\ ret.msg[2] = <<DfRow.subject, " ", DfRow.experiment, " ",
                              DfRow.session>>
            /\ Segmented => (idx = Length(disk.events) /\ data = evarr)
       ELSE /\ ret.kind = "return"
            /\ ret.data = data

C4_Witness ==
  /\ Computed /\ Segmented
  /\ self.strict /\ args.strict = Some(FALSE)
  /\ Markers(data) # {}
  /\ ret.kind = "return" /\ Markers(ret.data) # {}

\* C5 as stated: a window of at most 2 * pad_samples samples fails before
\* any work: no signal read, no events table load, no allocation.
C5_FailsBeforeAnyWork ==
  (Finished /\ ret.kind = "ValueError") => io = <<>>

\* C5 as amended: a segmentation call that read its files fails with the
\* validation error exactly when the window has at most 2 * pad_samples
\* samples; by then the signal, the channels and the events table have been
\* read and the table is kept on the loader, and the tensor is not allocated.
C5_FailsBeforeAllocation ==
  /\ (Finished /\ Segmented /\ ret.kind # "FileNotFoundError") =>
        (ret.kind = "ValueError" <=> WinLen <= 2 * PadSamples)
  /\ (Finished /\ ret.kind = "ValueError") =>
        /\ io = <<"h5py.File", "read_csv channels", "read_csv events">>
        /\ evarr = <<>>
        /\ self.events = Some(disk.events)
        /\ data = disk.data

C5_Witness ==
  /\ Finished /\ ret.kind = "ValueError"
  /\ args.buf # None
  /\ WinLen = 2 * PadSamples /\ WinLen > 0

\* the conversions of the call's three times to samples are exact
ExactTimes ==
  /\ (args.ev_start * disk.samplerate) % 1000 = 0
  /\ (args.ev_len[1] * disk.samplerate) % 1000 = 0
  /\ (args.buf[1] * disk.samplerate) % 1000 = 0

Trim(d, k) ==
  [i \in DOMAIN d |-> [c \in DOMAIN d[i] |->
      [t \in 0..(Length(d[i][c]) - 2 * k - 1) |-> d[i][c][t + k]]]]

Unpadded ==
  Epochs(disk.data, disk.samplerate, disk.events, args.ev_start,
         args.ev_len[1], None)

\* C6 as stated (with times that convert exactly, so that no rounding is
\* involved): the padded result with pad_samples dropped from each end of
\* every row is the result of the call without padding.
C6_PaddingLaw ==
  (Computed /\ Segmented /\ args.buf # None /\ ExactTimes) =>
     Trim(data, PadSamples) = Unpadded

\* C6 as amended: with times that convert exactly, the trimmed padded row
\* equals the unpadded row for every event whose padded window lies within
\* the signal; an event whose padded window leaves the signal has a row of
\* NaN only, also where its unpadded window lies within the signal.
C6_PaddingLawInside ==
  (Computed /\ Segmented /\ args.buf # None /\ ExactTimes) =>
     \A i \in DOMAIN disk.events :
        IF Inside(i)
          THEN Trim(data, PadSamples)[i] = Unpadded[i]
          ELSE AllMarker(data[i])

C6_Witness ==
  /\ Computed /\ Segmented /\ args.buf # None /\ ExactTimes
  /\ \E i, j \in DOMAIN disk.events :
       /\ Inside(i) /\ Trim(data, PadSamples)[i] = Unpadded[i]
       /\ ~Inside(j) /\ AllMarker(data[j]) /\ ~AllMarker(Unpadded[j])

\* C7: without ev_len the call returns the signal and the sample rate as
\* read, with all three axes, whatever ev_start and buf are; the events
\* table is not loaded, and only the strict check can make it fail.
C7_RawSignalUnchanged ==
  (Finished /\ ~Segmented /\ ret.kind # "FileNotFoundError") =>
     /\ io = <<"h5py.File", "read_csv channels">>
     /\ IF WantStrict /\ Markers(disk.data) # {}
          THEN ret.kind = "ArithmeticError"
          ELSE /\ ret.kind = "return"
               /\ ret.data = disk.data
               /\ ret.sr = disk.samplerate

C7_Witness ==
  /\ Finished /\ ~Segmented
  /\ args.buf # None /\ args.ev_start # 0
  /\ ret.kind = "return" /\ ret.data = disk.data
  /\ Markers(ret.data) # {}
  /\ self.events = None

\* C8 as stated: no call leaves anything on the loader.
C8_LoaderUntouched == self.events = None

\* C8 as amended: a call never changes the loader's data_dir or strict, the
\* files or the caller's arguments, and a call without ev_len leaves the
\* loader as it was; a segmentation call that read its files stores the
\* events table on the loader, where it stays after the call, also when the
\* call fails.
C8_OnlyEventsRetained ==
  [][/\ self'.data_dir = self.data_dir
     /\ self'.strict = self.strict
     /\ disk' = disk
     /\ pc # "idle" => args' = args
     /\ (pc = "setup" /\ Segmented) => self'.events = Some(disk.events)
     /\ ~(pc = "setup" /\ Segmented) => self'.events = self.events]_vars

C8_Witness ==
  /\ Finished /\ ret.kind = "ValueError"
  /\ self.events = Some(disk.events)
  /\ Length(disk.events) > 0

(***************************************************************************)
(* ClusterChecked                                                          *)
(***************************************************************************)
Checked == cpc = "idle" /\ res # None
Falsy == {i \in DOMAIN outcome : outcome[i] \in {"False", "None"}}
Reported == printed # <<>> \/ raised # None

\* C9: when some but not all results are falsy, the parameters of exactly
\* the falsy results are reported, each once and in input order, then the
\* error with the failed count out of the total is raised; nothing is
\* reported before every task has run to its end.
C9_PartialFailureReport ==
  /\ Reported => \A i \in DOMAIN task : task[i] = "done" /\ runs[i] = 1
  /\ (Checked /\ Falsy # {} /\ Falsy # DOMAIN outcome) =>
        /\ Len(printed) = 1
        /\ printed[1].form = "Error on job parameters:"
        /\ Len(printed[1].items) = Cardinality(Falsy)
        /\ \A j \in Falsy :
             printed[1].items[Cardinality({i \in Falsy : i < j}) + 1]
                = parameter_list[j]
        /\ raised = Some([form |-> "_ of _ jobs failed!",
                          items |-> <<Cardinality(Falsy),
                                      Length(parameter_list)>>])

C9_Witness ==
  /\ Checked
  /\ Length(parameter_list) = 4
  /\ outcome = [i \in 0..3 |-> IF i \in {1, 3} THEN "False" ELSE "True"]
  /\ printed[1].items = <<parameter_list[1], parameter_list[3]>>
  /\ raised # None

====
